---------------------------- MODULE Spec2Model ----------------------------
(***************************************************************************)
(* A model of the key-management core of the JWE implementation:          *)
(*   jwe/internal/keyenc/keyenc.go  (AES key wrap, ECDH-ES, ECMR, RSA,     *)
(*                                   direct mode, the facade constructors) *)
(* Every operation of the package is synchronous and pure apart from the   *)
(* randomness it draws, so a state of the model is the last completed call *)
(* (its inputs and what it returned) plus, for DirectDecrypt, the memory   *)
(* that holds the embedded key and the buffers handed out.                 *)
(***************************************************************************)
EXTENDS Integers, Sequences, FiniteSets, TLC

VARIABLES
  call,      \* the last completed call: [op, <inputs>, res]
  heap,      \* memory: a sequence of byte buffers, indexed by address
  returned,  \* addresses of the buffers DirectDecrypt.Decrypt handed out
  key0       \* the bytes DirectDecrypt was constructed with (history)

vars == <<call, heap, returned, key0>>

(***************************************************************************)
(* Bounds of the model.                                                    *)
(***************************************************************************)
MaxCekLen == 32     \* CEKs of 0..MaxCekLen bytes are wrapped
NumKeys == 2        \* number of distinct key-encryption keys

(***************************************************************************)
(* Bytes and byte strings.                                                 *)
(***************************************************************************)
Zeros(n) == [i \in 1..n |-> 0]

RECURSIVE Xor(_, _)
\* bitwise exclusive-or of two bytes (the ^ of keyenc.go:547 and :587)
Xor(a, b) ==
  IF a = 0 THEN b
  ELSE IF b = 0 THEN a
  ELSE (((a % 2) + (b % 2)) % 2) + 2 * Xor(a \div 2, b \div 2)

RECURSIVE BigEndian(_, _)
\* the n low-order bytes of v, most significant first
BigEndian(v, n) ==
  IF n = 0 THEN <<>> ELSE Append(BigEndian(v \div 256, n - 1), v % 256)

\* binary.BigEndian.PutUint64(tBytes, v)
PutUint64(v) == BigEndian(v, 8)

RECURSIVE SumBytes(_)
SumBytes(s) == IF s = <<>> THEN 0 ELSE (Head(s) + SumBytes(Tail(s))) % 256

RECURSIVE WeightedSum(_, _)
WeightedSum(s, w) ==
  IF s = <<>> THEN 0
  ELSE (w * Head(s) + WeightedSum(Tail(s), w + 1)) % 256

(***************************************************************************)
(* The block cipher behind cipher.Block (crypto/aes).  The package uses it *)
(* only through Encrypt and Decrypt on one 16-byte block; what matters is  *)
(* that, for each key, Encrypt is a permutation of the 16-byte blocks and  *)
(* Decrypt is its inverse.  The model's cipher rotates the block by a      *)
(* key-dependent amount and adds a key- and position-dependent byte.       *)
(***************************************************************************)
BlockSize == 16

AESKeySizes == {16, 24, 32}

\* aes.NewCipher(key): fails unless the key is 16, 24 or 32 bytes long
NewCipher(key) ==
  IF Len(key) \in AESKeySizes
  THEN [ok |-> TRUE,
        rot |-> 1 + (SumBytes(key) % (BlockSize - 1)),
        add |-> WeightedSum(key, 1)]
  ELSE [ok |-> FALSE, rot |-> 0, add |-> 0]

Rot(i, k) == ((i - 1 + k) % BlockSize) + 1

\* block.Encrypt(dst, src) on one block
BlockEncrypt(block, buf) ==
  [i \in 1..BlockSize |-> (buf[Rot(i, block.rot)] + block.add + i) % 256]

\* block.Decrypt(dst, src) on one block
BlockDecrypt(block, buf) ==
  [j \in 1..BlockSize |->
     LET i == Rot(j, BlockSize - block.rot)
     IN ((buf[i] + 512) - (block.add + i)) % 256]

(***************************************************************************)
(* AES key wrap: Wrap and Unwrap of keyenc.go.                             *)
(***************************************************************************)
keywrapChunkLen == 8

keywrapDefaultIV == [i \in 1..keywrapChunkLen |-> 166]   \* 0xa6

\* r[0] .. r[n-1] laid out one after the other
RECURSIVE Flatten(_, _)
Flatten(r, n) ==
  IF n = 0 THEN <<>> ELSE Flatten(r, n - 1) \o r[n]

\* buffer[i] ^= tBytes[i] for the first keywrapChunkLen bytes
XorCounter(buffer, t) ==
  LET tBytes == PutUint64(t + 1)
  IN [i \in 1..(2 * keywrapChunkLen) |->
        IF i <= keywrapChunkLen THEN Xor(buffer[i], tBytes[i]) ELSE buffer[i]]

\* copy(buffer[keywrapChunkLen:], chunk)
WithLow(buffer, chunk) == SubSeq(buffer, 1, keywrapChunkLen) \o chunk

\* one turn of Wrap's loop, for counter t (0-based)
WrapRound(kek, n, st, t) ==
  LET idx == (t % n) + 1
      enc == BlockEncrypt(kek, WithLow(st.buffer, st.r[idx]))
      buf == XorCounter(enc, t)
  IN [r |-> [st.r EXCEPT ![idx] = SubSeq(buf, keywrapChunkLen + 1, 2 * keywrapChunkLen)],
      buffer |-> buf,
      steps |-> st.steps + 1]

RECURSIVE WrapLoop(_, _, _, _)
\* for t := 0; t < 6*n; t++
WrapLoop(kek, n, st, t) ==
  IF t < 6 * n THEN WrapLoop(kek, n, WrapRound(kek, n, st, t), t + 1) ELSE st

\* Wrap(kek, cek): err is "none" or "shape" (keywrap input must be 8 byte blocks)
Wrap(kek, cek) ==
  IF (Len(cek) % 8) # 0
  THEN [err |-> "shape", out |-> <<>>, steps |-> 0]
  ELSE LET n == Len(cek) \div keywrapChunkLen
           r0 == [i \in 1..n |->
                    SubSeq(cek, (i - 1) * keywrapChunkLen + 1, i * keywrapChunkLen)]
           st0 == [r |-> r0,
                   buffer |-> keywrapDefaultIV \o Zeros(keywrapChunkLen),
                   steps |-> 0]
           st == WrapLoop(kek, n, st0, 0)
       IN [err |-> "none",
           out |-> SubSeq(st.buffer, 1, keywrapChunkLen) \o Flatten(st.r, n),
           steps |-> st.steps]

\* one turn of Unwrap's loop with the counter left out of the block
UnwrapRoundNoCounter(block, n, st, t) ==
  LET idx == (t % n) + 1
      dec == BlockDecrypt(block, WithLow(st.buffer, st.r[idx]))
  IN [r |-> [st.r EXCEPT ![idx] = SubSeq(dec, keywrapChunkLen + 1, 2 * keywrapChunkLen)],
      buffer |-> dec,
      steps |-> st.steps + 1]

\* one turn of Unwrap's loop, for counter t (0-based)
UnwrapRound(block, n, st, t) ==
  LET idx == (t % n) + 1
      dec == BlockDecrypt(block, WithLow(XorCounter(st.buffer, t), st.r[idx]))
  IN [r |-> [st.r EXCEPT ![idx] = SubSeq(dec, keywrapChunkLen + 1, 2 * keywrapChunkLen)],
      buffer |-> dec,
      steps |-> st.steps + 1]

RECURSIVE UnwrapLoop(_, _, _, _)
\* for t := 6*n - 1; t >= 0; t--
UnwrapLoop(block, n, st, t) ==
  IF t >= 0 THEN UnwrapLoop(block, n, UnwrapRound(block, n, st, t), t - 1) ELSE st

\* Unwrap(block, ciphertxt): err is
\*   "none"       a key is returned in out
\*   "shape"      keyunwrap input must be 8 byte blocks
\*   "integrity"  key unwrap: failed to unwrap key
\*   "panic"      the call aborts: make([][]byte, n) with n = -1
Unwrap(block, ciphertxt) ==
  IF (Len(ciphertxt) % keywrapChunkLen) # 0
  THEN [err |-> "shape", out |-> <<>>, steps |-> 0]
  ELSE LET n == (Len(ciphertxt) \div keywrapChunkLen) - 1
       IN IF n < 0
          THEN [err |-> "panic", out |-> <<>>, steps |-> 0]
          ELSE LET r0 == [i \in 1..n |->
                            SubSeq(ciphertxt, i * keywrapChunkLen + 1,
                                   (i + 1) * keywrapChunkLen)]
                   st0 == [r |-> r0,
                           buffer |-> SubSeq(ciphertxt, 1, keywrapChunkLen)
                                        \o Zeros(keywrapChunkLen),
                           steps |-> 0]
                   st == UnwrapLoop(block, n, st0, 6 * n - 1)
               IN IF SubSeq(st.buffer, 1, keywrapChunkLen) # keywrapDefaultIV
                  THEN [err |-> "integrity", out |-> <<>>, steps |-> st.steps]
                  ELSE [err |-> "none", out |-> Flatten(st.r, n), steps |-> st.steps]

(***************************************************************************)
(* Inputs of the key-wrap specification.                                   *)
(***************************************************************************)
\* the k-th key-encryption key, 16 bytes
KekBytes(k) == [i \in 1..16 |-> (k * i + k) % 256]

Keks == {KekBytes(k) : k \in 1..NumKeys}

ByteKinds == {"zero", "iv", "ramp"}

\* a byte string of the given length
Fill(kind, len) ==
  [i \in 1..len |->
     CASE kind = "zero" -> 0
       [] kind = "iv" -> 166
       [] OTHER -> (i * 17) % 256]

Ceks == {Fill(kind, len) : kind \in ByteKinds, len \in 0..MaxCekLen}

Ciphertexts == {Fill(kind, len) : kind \in ByteKinds, len \in 0..(MaxCekLen + 8)}

NoHeap == <<>>

\* no call has been made yet
InitIdle ==
  /\ call = [op |-> "none"]
  /\ heap = NoHeap
  /\ returned = {}
  /\ key0 = <<>>

Idle == call.op = "none"

\* the caller is done with what the last call returned
Forget ==
  /\ ~Idle
  /\ call' = [op |-> "none"]
  /\ UNCHANGED <<heap, returned, key0>>

\* a caller wraps a CEK under a key
DoWrap ==
  \E key \in Keks, cek \in Ceks :
    /\ Idle
    /\ call' = [op |-> "Wrap", kek |-> key, cek |-> cek,
                res |-> Wrap(NewCipher(key), cek)]
    /\ UNCHANGED <<heap, returned, key0>>

\* the bytes Wrap just returned are unwrapped, under the same or another key
DoUnwrapWrapped ==
  /\ call.op = "Wrap"
  /\ call.res.err = "none"
  /\ \E key \in Keks :
       call' = [op |-> "Unwrap", kek |-> key, in |-> call.res.out,
                wrapped |-> TRUE, wrapKek |-> call.kek, cek |-> call.cek,
                res |-> Unwrap(NewCipher(key), call.res.out)]
  /\ UNCHANGED <<heap, returned, key0>>

\* arbitrary bytes are unwrapped
DoUnwrap ==
  \E key \in Keks, c \in Ciphertexts :
    /\ Idle
    /\ call' = [op |-> "Unwrap", kek |-> key, in |-> c,
                wrapped |-> FALSE, wrapKek |-> <<>>, cek |-> <<>>,
                res |-> Unwrap(NewCipher(key), c)]
    /\ UNCHANGED <<heap, returned, key0>>

NextKW == DoWrap \/ DoUnwrapWrapped \/ DoUnwrap \/ Forget

SpecKW == InitIdle /\ [][NextKW]_vars

PositiveMultipleOf8(len) == len > 0 /\ (len % 8) = 0

\* C1: for every key k and every CEK m whose length is a positive multiple of
\* 8 bytes, Unwrap(k, Wrap(k, m)) succeeds and returns exactly m.
C1_UnwrapWrapRoundTrip ==
  (/\ call.op = "Unwrap"
   /\ call.wrapped
   /\ call.wrapKek = call.kek
   /\ PositiveMultipleOf8(Len(call.cek)))
  => (call.res.err = "none" /\ call.res.out = call.cek)

C1_Witness ==
  /\ call.op = "Unwrap"
  /\ call.wrapped
  /\ call.wrapKek = call.kek
  /\ Len(call.cek) = 16
  /\ call.res.err = "none"
  /\ call.res.out = call.cek
  /\ call.res.steps = 12

\* C2: Unwrap returns an input-shape error, without running any block-cipher
\* step and without aborting, for every input shorter than 24 bytes
\* (including 0, 8 and 16) or whose length is not a multiple of 8; it never
\* returns a key for such an input.
C2_UnwrapRejectsShortInput ==
  (/\ call.op = "Unwrap"
   /\ (Len(call.in) < 24 \/ (Len(call.in) % 8) # 0))
  => (call.res.err = "shape" /\ call.res.steps = 0)

\* C8: Wrap fails with an input-shape error exactly when the CEK length is
\* not a positive multiple of 8 bytes; for every CEK of n >= 1 eight-byte
\* blocks it succeeds and returns exactly (n+1)*8 bytes.
C8_WrapFailsExactlyOnBadLength ==
  call.op = "Wrap"
  => /\ (call.res.err = "shape") <=> ~PositiveMultipleOf8(Len(call.cek))
     /\ PositiveMultipleOf8(Len(call.cek))
          => /\ call.res.err = "none"
             /\ Len(call.res.out) = ((Len(call.cek) \div 8) + 1) * 8

(***************************************************************************)
(* RSA PKCS#1 v1.5 key decryption: RSAPKCS15Decrypt of keyenc.go.          *)
(***************************************************************************)
ModBitsSpan == 9    \* moduli of 2040 .. 2040+ModBitsSpan bits are used

ModulusBitLens == {2040 + i : i \in 0..ModBitsSpan}

CeilDiv(a, b) == (a + b - 1) \div b

\* (*rsa.PublicKey).Size(): the modulus size in bytes
ModulusSize(priv) == CeilDiv(priv.bits, 8)

\* keygen.NewRandom(n).Generate(): n bytes read from the random source; the
\* action that calls Decrypt chooses them
RandomBuffers(n) == {Fill(kind, n) : kind \in {"zero", "ramp"}}

\* NewRSAPKCS15Decrypt(alg, privkey, keysize)
NewRSAPKCS15Decrypt(alg, privkey, keysize) ==
  [alg |-> alg, privkey |-> privkey, generator |-> [size |-> keysize * 2]]

\* What a ciphertext is to the RSA primitive:
\*   "padded"      it decrypts to a well-formed PKCS#1 v1.5 block around msg
\*   "badpad"      it decrypts to a block whose padding is invalid
\*   "outofrange"  its value is not below the modulus
\*   "malformed"   a payload on which the unpatched primitive (Go before
\*                 1.3.1) indexes out of range
CiphertextKinds == {"padded", "badpad", "outofrange", "malformed"}

\* rsa.DecryptPKCS1v15SessionKey(rand, priv, ciphertext, key): the ways it can
\* end.  "copied": key now holds the message; "unchanged": nil is returned
\* and key is left as it was; "error": rsa.ErrDecryption; "panic": it aborts.
SessionKeyOutcomes(priv, ct, keylen) ==
  IF ModulusSize(priv) - (keylen + 3 + 8) < 0 THEN {"error"}
  ELSE CASE ct.kind = "outofrange" -> {"error"}
         [] ct.kind = "padded" ->
              IF Len(ct.msg) = keylen THEN {"copied"} ELSE {"unchanged"}
         [] ct.kind = "badpad" -> {"unchanged"}
         [] OTHER -> {"unchanged", "panic"}

\* expectedlen := d.privkey.PublicKey.N.BitLen() / 8
ExpectedLen(d) == d.privkey.bits \div 8

\* RSAPKCS15Decrypt.Decrypt(enckey), given the bytes the generator yields and
\* the way the RSA primitive ends.  err is
\*   "none"       (cek, nil) is returned; hasKey is FALSE when cek is nil
\*   "size"       input size for key decrypt is incorrect
\*   "primitive"  failed to decrypt via PKCS1v15
\* A panic of the primitive is swallowed by the deferred recover(); the
\* results are unnamed, so the call then returns (nil, nil).
RSAPKCS15Decrypt(d, enckey, fallback, outcome) ==
  IF ExpectedLen(d) # enckey.len
  THEN [err |-> "size", hasKey |-> FALSE, cek |-> <<>>, primitiveRan |-> FALSE]
  ELSE CASE outcome = "error" ->
              [err |-> "primitive", hasKey |-> FALSE, cek |-> <<>>, primitiveRan |-> TRUE]
         [] outcome = "copied" ->
              [err |-> "none", hasKey |-> TRUE, cek |-> enckey.msg, primitiveRan |-> TRUE]
         [] outcome = "unchanged" ->
              [err |-> "none", hasKey |-> TRUE, cek |-> fallback, primitiveRan |-> TRUE]
         [] OTHER ->
              [err |-> "none", hasKey |-> FALSE, cek |-> <<>>, primitiveRan |-> TRUE]

RSAKeySizes == {16, 32}

\* the ciphertexts offered to a decrypter: every kind, lengths around the
\* modulus size, carrying a message of the CEK size or of the buffer size
RSACiphertexts(d) ==
  {[len |-> ModulusSize(d.privkey) + dl, kind |-> kind, msg |-> Fill("iv", ml)] :
     dl \in {-1, 0, 1}, kind \in CiphertextKinds,
     ml \in {d.generator.size \div 2, d.generator.size}}

\* a decrypter is made for some key and asked to decrypt some ciphertext
DoRSAPKCS15Decrypt ==
  \E bits \in ModulusBitLens, keysize \in RSAKeySizes :
    LET d == NewRSAPKCS15Decrypt("RSA1_5", [bits |-> bits], keysize)
    IN \E enckey \in RSACiphertexts(d), fallback \in RandomBuffers(d.generator.size) :
         \E outcome \in SessionKeyOutcomes(d.privkey, enckey, Len(fallback)) :
           /\ Idle
           /\ call' = [op |-> "RSAPKCS15Decrypt", d |-> d, enckey |-> enckey,
                       fallback |-> fallback, outcome |-> outcome,
                       res |-> RSAPKCS15Decrypt(d, enckey, fallback, outcome)]
           /\ UNCHANGED <<heap, returned, key0>>

NextRSA == DoRSAPKCS15Decrypt \/ Forget

SpecRSA == InitIdle /\ [][NextRSA]_vars

\* C3: for every ciphertext whose length equals the RSA modulus length,
\* Decrypt returns no key-decryption error: on invalid padding, on any other
\* failure of the RSA primitive and on a fault trapped inside the primitive
\* it returns the pre-generated random fallback buffer, of the fallback
\* length, as the CEK.
C3_NoErrorForCorrectLength ==
  (/\ call.op = "RSAPKCS15Decrypt"
   /\ call.enckey.len = ModulusSize(call.d.privkey))
  => /\ call.res.err = "none"
     /\ call.res.hasKey
     /\ call.outcome # "copied"
          => /\ call.res.cek = call.fallback
             /\ Len(call.res.cek) = call.d.generator.size

\* C4: for every modulus bit length, Decrypt rejects a ciphertext with an
\* error before the RSA primitive runs exactly when the ciphertext length
\* differs from ceil(modulusBits/8), and lets a ciphertext of that length
\* through to the primitive.
C4_RejectsExactlyOtherLengths ==
  call.op = "RSAPKCS15Decrypt"
  => /\ (call.res.err = "size") <=> (call.enckey.len # CeilDiv(call.d.privkey.bits, 8))
     /\ (call.res.err = "size") => ~call.res.primitiveRan
     /\ (call.enckey.len = CeilDiv(call.d.privkey.bits, 8)) => call.res.primitiveRan

(***************************************************************************)
(* The constructors of the encrypters and decrypters.                      *)
(***************************************************************************)
\* jwa.KeyEncryptionAlgorithm is a string type: the twelve registered
\* identifiers, and any other string
KeyEncryptionAlgorithms ==
  {"DIR", "A128KW", "A192KW", "A256KW",
   "ECDH_ES", "ECDH_ES_A128KW", "ECDH_ES_A192KW", "ECDH_ES_A256KW",
   "ECMR", "RSA1_5", "RSA_OAEP", "RSA_OAEP_256", "unregistered"}

Constructors ==
  {"NewAESCGM", "NewECDHESEncrypt", "NewECDHESDecrypt", "NewECMRDecrypt",
   "NewRSAOAEPEncrypt", "NewRSAPKCSEncrypt", "NewRSAPKCS15Decrypt",
   "NewRSAOAEPDecrypt"}

Built(type, alg, key) ==
  [err |-> "none", obj |-> [type |-> type, alg |-> alg, key |-> key]]

Refused(err) == [err |-> err, obj |-> [type |-> "nil", alg |-> "", key |-> 0]]

\* NewAESCGM(alg, sharedkey)
NewAESCGM(alg, key) == Built("AESCGM", alg, key)

\* NewECDHESEncrypt(alg, key): fails when keygen.NewEcdhes(alg, key) does
NewECDHESEncrypt(alg, key, generatorFails) ==
  IF generatorFails THEN Refused("generator") ELSE Built("ECDHESEncrypt", alg, key)

\* NewECDHESDecrypt(keyalg, contentalg, pubkey, apu, apv, privkey): no error result
NewECDHESDecrypt(alg, key) == Built("ECDHESDecrypt", alg, key)

\* NewECMRDecrypt(keyalg, contentalg, pubkey, apu, apv, exchFn): no error result
NewECMRDecrypt(alg, key) == Built("ECMRDecrypt", alg, key)

\* NewRSAOAEPEncrypt without its switch on alg
NewRSAOAEPEncryptUnchecked(alg, key) == Built("RSAOAEPEncrypt", alg, key)

\* NewRSAOAEPEncrypt(alg, pubkey)
NewRSAOAEPEncrypt(alg, key) ==
  IF alg \in {"RSA_OAEP", "RSA_OAEP_256"}
  THEN Built("RSAOAEPEncrypt", alg, key)
  ELSE Refused("algorithm")

\* NewRSAPKCSEncrypt(alg, pubkey)
NewRSAPKCSEncrypt(alg, key) ==
  IF alg = "RSA1_5" THEN Built("RSAPKCSEncrypt", alg, key) ELSE Refused("algorithm")

\* NewRSAOAEPDecrypt(alg, privkey)
NewRSAOAEPDecrypt(alg, key) ==
  IF alg \in {"RSA_OAEP", "RSA_OAEP_256"}
  THEN Built("RSAOAEPDecrypt", alg, key)
  ELSE Refused("algorithm")

\* the call of one constructor; NewRSAPKCS15Decrypt has no error result
Construct(ctor, alg, key, generatorFails) ==
  CASE ctor = "NewAESCGM" -> NewAESCGM(alg, key)
    [] ctor = "NewECDHESEncrypt" -> NewECDHESEncrypt(alg, key, generatorFails)
    [] ctor = "NewECDHESDecrypt" -> NewECDHESDecrypt(alg, key)
    [] ctor = "NewECMRDecrypt" -> NewECMRDecrypt(alg, key)
    [] ctor = "NewRSAOAEPEncrypt" -> NewRSAOAEPEncrypt(alg, key)
    [] ctor = "NewRSAPKCSEncrypt" -> NewRSAPKCSEncrypt(alg, key)
    [] ctor = "NewRSAPKCS15Decrypt" ->
         [err |-> "none",
          obj |-> [type |-> "RSAPKCS15Decrypt",
                   alg |-> NewRSAPKCS15Decrypt(alg, key, 16).alg, key |-> key]]
    [] OTHER -> NewRSAOAEPDecrypt(alg, key)

\* the algorithms each kind of object implements
Supported(ctor) ==
  CASE ctor = "NewAESCGM" -> {"A128KW", "A192KW", "A256KW"}
    [] ctor \in {"NewECDHESEncrypt", "NewECDHESDecrypt"} ->
         {"ECDH_ES", "ECDH_ES_A128KW", "ECDH_ES_A192KW", "ECDH_ES_A256KW"}
    [] ctor = "NewECMRDecrypt" -> {"ECMR"}
    [] ctor \in {"NewRSAOAEPEncrypt", "NewRSAOAEPDecrypt"} -> {"RSA_OAEP", "RSA_OAEP_256"}
    [] OTHER -> {"RSA1_5"}

\* a caller constructs an object for some algorithm identifier and key
DoConstruct ==
  \E ctor \in Constructors, alg \in KeyEncryptionAlgorithms, key \in 1..NumKeys,
     generatorFails \in BOOLEAN :
    /\ Idle
    /\ call' = [op |-> "Construct", ctor |-> ctor, alg |-> alg, key |-> key,
                generatorFails |-> generatorFails,
                res |-> Construct(ctor, alg, key, generatorFails)]
    /\ UNCHANGED <<heap, returned, key0>>

NextFacade == DoConstruct \/ Forget

SpecFacade == InitIdle /\ [][NextFacade]_vars

ValidatingConstructors == {"NewRSAOAEPEncrypt", "NewRSAPKCSEncrypt", "NewRSAOAEPDecrypt"}

\* C6 as stated: every constructor fails with an algorithm-mismatch error
\* when given an algorithm identifier its facade does not support.
C6_EveryConstructorValidates ==
  (call.op = "Construct" /\ call.alg \notin Supported(call.ctor))
  => call.res.err = "algorithm"

\* C6 as amended: NewRSAOAEPEncrypt, NewRSAPKCSEncrypt and NewRSAOAEPDecrypt
\* fail with an algorithm-mismatch error exactly when given an identifier
\* they do not support; NewAESCGM, NewECDHESDecrypt, NewECMRDecrypt and
\* NewRSAPKCS15Decrypt check nothing and build an object that carries
\* whatever identifier they were given; NewECDHESEncrypt makes no check of
\* its own and fails exactly when keygen.NewEcdhes fails.
C6_ConstructorValidation ==
  call.op = "Construct"
  => /\ call.ctor \in ValidatingConstructors
          => ((call.res.err = "algorithm") <=> (call.alg \notin Supported(call.ctor)))
     /\ call.ctor \in {"NewAESCGM", "NewECDHESDecrypt", "NewECMRDecrypt",
                       "NewRSAPKCS15Decrypt"}
          => (call.res.err = "none" /\ call.res.obj.alg = call.alg)
     /\ call.ctor = "NewECDHESEncrypt"
          => ((call.res.err = "generator") <=> call.generatorFails)
     /\ call.res.err = "none" => call.res.obj.alg = call.alg

C6_Witness ==
  /\ call.op = "Construct"
  /\ call.ctor = "NewRSAOAEPEncrypt"
  /\ call.alg = "A128KW"
  /\ call.res.err = "algorithm"

(***************************************************************************)
(* Direct mode: DirectDecrypt of keyenc.go.  d.Key is a slice: an address  *)
(* into memory.  Decrypt allocates; callers write to what they were given. *)
(***************************************************************************)
MaxBuffers == 3     \* buffers Decrypt may allocate in one run
DirectKeyLen == 2   \* length of the embedded key in the model

KeyAddr == 1        \* where d.Key points

ModelBytes == {0, 166}

RECURSIVE SeqsOf(_, _)
SeqsOf(S, n) ==
  IF n = 0 THEN {<<>>}
  ELSE {Append(s, b) : s \in SeqsOf(S, n - 1), b \in S}

InitDirect ==
  /\ call = [op |-> "none"]
  /\ key0 \in SeqsOf(ModelBytes, DirectKeyLen)
  /\ heap = <<key0>>
  /\ returned = {}

\* Decrypt that hands out d.Key itself
DirectDecryptAliased(mem, keyAddr) ==
  [mem |-> mem, cek |-> keyAddr, err |-> "none"]

\* DirectDecrypt.Decrypt(): cek := make([]byte, len(d.Key)); copy(cek, d.Key)
DirectDecrypt(mem, keyAddr) ==
  [mem |-> Append(mem, [i \in 1..Len(mem[keyAddr]) |-> mem[keyAddr][i]]),
   cek |-> Len(mem) + 1,
   err |-> "none"]

DoDirectDecrypt ==
  /\ Len(heap) < 1 + MaxBuffers
  /\ LET r == DirectDecrypt(heap, KeyAddr)
     IN /\ heap' = r.mem
        /\ returned' = returned \cup {r.cek}
        /\ call' = [op |-> "DirectDecrypt", res |-> [err |-> r.err, cek |-> r.mem[r.cek]]]
  /\ UNCHANGED key0

\* a caller writes a byte of a buffer it was given (zeroing it, for one)
DoWriteReturned ==
  \E a \in returned, i \in 1..DirectKeyLen, b \in ModelBytes :
    /\ i <= Len(heap[a])
    /\ heap' = [heap EXCEPT ![a][i] = b]
    /\ call' = [op |-> "write"]
    /\ UNCHANGED <<returned, key0>>

NextDirect == DoDirectDecrypt \/ DoWriteReturned

SpecDirect == InitDirect /\ [][NextDirect]_vars

\* C10: DirectDecrypt.Decrypt always succeeds and returns bytes equal to the
\* embedded key but stored separately: after any sequence of Decrypt calls
\* and of writes to returned buffers the embedded key is unchanged, and every
\* Decrypt returns the original key.
C10_DecryptReturnsIndependentCopy ==
  /\ heap[KeyAddr] = key0
  /\ KeyAddr \notin returned
  /\ call.op = "DirectDecrypt" => (call.res.err = "none" /\ call.res.cek = key0)

C10_Witness ==
  /\ call.op = "DirectDecrypt"
  /\ call.res.cek = key0
  /\ Cardinality(returned) >= 2
  /\ \E a \in returned : heap[a] # key0

(***************************************************************************)
(* Elliptic curves (crypto/elliptic).  The package's curves are short      *)
(* Weierstrass curves y^2 = x^3 - 3x + b over a prime field, of prime      *)
(* order, with the point at infinity written (0, 0).  The model uses two   *)
(* small curves of that form and the arithmetic of elliptic.CurveParams.   *)
(***************************************************************************)
MaxScalar == 4      \* private scalars are 1..MaxScalar

CurveParams ==
  [E17 |-> [p |-> 17, b |-> 3, gx |-> 1, gy |-> 1, n |-> 23, bitSize |-> 5],
   E13 |-> [p |-> 13, b |-> 1, gx |-> 1, gy |-> 5, n |-> 19, bitSize |-> 4]]

CurveNames == {"E17", "E13"}

Scalars == 1..MaxScalar

Infinity == [x |-> 0, y |-> 0]

RECURSIVE ModExp(_, _, _)
ModExp(v, e, p) ==
  IF e = 0 THEN 1
  ELSE LET h == ModExp(v, e \div 2, p)
       IN IF (e % 2) = 0 THEN (h * h) % p ELSE (((h * h) % p) * v) % p

\* the inverse of v modulo the prime p
ModInv(v, p) == ModExp(v % p, p - 2, p)

\* Curve.IsOnCurve(x, y)
IsOnCurve(c, P) ==
  LET p == CurveParams[c].p
  IN /\ P.x \in 0..(p - 1)
     /\ P.y \in 0..(p - 1)
     /\ ((P.y * P.y) % p) = ((P.x * P.x * P.x - 3 * P.x + CurveParams[c].b) % p)

\* the tangent rule
Double(c, P) ==
  LET p == CurveParams[c].p
      x == P.x % p
      y == P.y % p
  IN IF y = 0 THEN Infinity
     ELSE LET l == ((3 * x * x - 3) * ModInv(2 * y, p)) % p
              x3 == (l * l - 2 * x) % p
          IN [x |-> x3, y |-> (l * (x - x3) - y) % p]

\* Curve.Add(x1, y1, x2, y2)
Add(c, P, Q) ==
  LET p == CurveParams[c].p
      x1 == P.x % p
      y1 == P.y % p
      x2 == Q.x % p
      y2 == Q.y % p
  IN IF P = Infinity THEN (IF Q = Infinity THEN Infinity ELSE [x |-> x2, y |-> y2])
     ELSE IF Q = Infinity THEN [x |-> x1, y |-> y1]
     ELSE IF x1 = x2
          THEN (IF y1 = y2 THEN Double(c, P) ELSE Infinity)
          ELSE LET l == ((y2 - y1) * ModInv(x2 - x1, p)) % p
                   x3 == (l * l - x1 - x2) % p
               IN [x |-> x3, y |-> (l * (x1 - x3) - y1) % p]

RECURSIVE ScalarMult(_, _, _)
\* Curve.ScalarMult(x, y, k)
ScalarMult(c, P, k) ==
  IF k = 0 THEN Infinity
  ELSE LET half == ScalarMult(c, Double(c, P), k \div 2)
       IN IF (k % 2) = 1 THEN Add(c, P, half) ELSE half

Generator(c) == [x |-> CurveParams[c].gx, y |-> CurveParams[c].gy]

\* ecdsa.GenerateKey(curve, rand) when the random scalar is d
GenerateKey(c, d) ==
  LET Q == ScalarMult(c, Generator(c), d)
  IN [curve |-> c, d |-> d, x |-> Q.x, y |-> Q.y]

\* the &priv.PublicKey of a private key
PublicKey(priv) == [curve |-> priv.curve, x |-> priv.x, y |-> priv.y]

Point(k) == [x |-> k.x, y |-> k.y]

(***************************************************************************)
(* Collaborators of the ECDH engine: the fixed-width point buffer of       *)
(* internal/ecutil, the Concat KDF of internal/concatkdf and the algorithm *)
(* tables of jwa and jwe/internal/cipher.                                  *)
(***************************************************************************)
RECURSIVE BigIntBytes(_)
\* (*big.Int).Bytes(): big-endian, no leading zeros
BigIntBytes(v) ==
  IF v = 0 THEN <<>> ELSE Append(BigIntBytes(v \div 256), v % 256)

\* ecutil.AllocECPointBuffer(v, curve): v big-endian, left-padded with zeros
\* to ceil(bitSize/8) bytes
AllocECPointBuffer(v, c) ==
  LET size == CeilDiv(CurveParams[c].bitSize, 8)
      raw == BigIntBytes(v)
  IN Zeros(size - Len(raw)) \o raw

\* the length-prefixed form of a Concat KDF field
NData(s) == BigEndian(Len(s), 4) \o s

HashSize == 32

\* the digest of a message whose bytes sum to s1, whose position-weighted
\* bytes sum to s2 (both modulo 256) and whose length is len
Digest(s1, s2, len) ==
  [j \in 1..HashSize |-> (7 * (s2 + j * s1) + 31 * j + len) % 256]

\* the hash of the KDF.  SHA-256 is out of reach of the model; this stand-in
\* maps a message to HashSize bytes, every one of which depends on every
\* byte of the message, on its position and on the message's length
Hash(msg) == Digest(SumBytes(msg), WeightedSum(msg, 1), Len(msg))

RECURSIVE KdfStream(_, _, _, _)
\* the first rounds blocks Hash(be32(round) || z || otherinfo), round = from ..
KdfStream(z, otherinfo, from, rounds) ==
  IF rounds = 0 THEN <<>>
  ELSE Hash(BigEndian(from, 4) \o z \o otherinfo)
         \o KdfStream(z, otherinfo, from + 1, rounds - 1)

\* concatkdf.New(crypto.SHA256, alg, z, apu, apv, pubinfo, {}) read for
\* keysize bytes
ConcatKDF(alg, z, apu, apv, pubinfo, keysize) ==
  LET otherinfo == NData(alg) \o NData(apu) \o NData(apv) \o pubinfo
  IN SubSeq(KdfStream(z, otherinfo, 1, CeilDiv(keysize, HashSize)), 1, keysize)

\* String() of a key or content encryption algorithm
AlgorithmName(alg) ==
  CASE
       alg = "ECDH_ES" -> <<69, 67, 68, 72, 45, 69, 83>>   \* "ECDH-ES"
    [] alg = "ECDH_ES_A128KW" -> <<69, 67, 68, 72, 45, 69, 83, 43, 65, 49, 50, 56, 75, 87>>   \* "ECDH-ES+A128KW"
    [] alg = "ECDH_ES_A192KW" -> <<69, 67, 68, 72, 45, 69, 83, 43, 65, 49, 57, 50, 75, 87>>   \* "ECDH-ES+A192KW"
    [] alg = "ECDH_ES_A256KW" -> <<69, 67, 68, 72, 45, 69, 83, 43, 65, 50, 53, 54, 75, 87>>   \* "ECDH-ES+A256KW"
    [] alg = "ECMR" -> <<69, 67, 77, 82>>   \* "ECMR"
    [] alg = "A128GCM" -> <<65, 49, 50, 56, 71, 67, 77>>   \* "A128GCM"
    [] alg = "A256GCM" -> <<65, 50, 53, 54, 71, 67, 77>>   \* "A256GCM"
    [] alg = "A256CBC_HS512" -> <<65, 50, 53, 54, 67, 66, 67, 45, 72, 83, 53, 49, 50>>   \* "A256CBC-HS512"

\* contentcipher.NewAES(contentalg).KeySize()
ContentKeySize(contentalg) ==
  CASE contentalg = "A128GCM" -> 16
    [] contentalg = "A256GCM" -> 32
    [] OTHER -> 64

ContentAlgorithms == {"A128GCM", "A256GCM", "A256CBC_HS512"}

(***************************************************************************)
(* ECDH-ES and ECMR key derivation: DeriveECDHES and DeriveECMR.           *)
(***************************************************************************)
\* binary.BigEndian.PutUint32(pubinfo, v) for a uint32 v
PutUint32(v) == BigEndian(v, 4)

NoKey(err, mults) == [err |-> err, hasKey |-> FALSE, key |-> <<>>, scalarMults |-> mults]

\* DeriveECDHES that multiplies the private key's own public point
DeriveECDHESOwnPoint(alg, apu, apv, privkey, pubkey, keysize) ==
  IF ~IsOnCurve(privkey.curve, Point(pubkey))
  THEN NoKey("curve", 0)
  ELSE LET z == ScalarMult(privkey.curve, Point(privkey), privkey.d).x
           zBytes == AllocECPointBuffer(z, privkey.curve)
       IN [err |-> "none", hasKey |-> TRUE,
           key |-> ConcatKDF(alg, zBytes, apu, apv, PutUint32(keysize * 8), keysize),
           scalarMults |-> 1]

\* DeriveECDHES without the IsOnCurve test
DeriveECDHESUnchecked(alg, apu, apv, privkey, pubkey, keysize) ==
  LET z == ScalarMult(privkey.curve, Point(pubkey), privkey.d).x
      zBytes == AllocECPointBuffer(z, privkey.curve)
  IN [err |-> "none", hasKey |-> TRUE,
      key |-> ConcatKDF(alg, zBytes, apu, apv, PutUint32(keysize * 8), keysize),
      scalarMults |-> 1]

\* DeriveECDHES(alg, apu, apv, privkey, pubkey, keysize).  err is "none" or
\* "curve" (public key must be on the same curve as private key);
\* scalarMults counts the calls of Curve.ScalarMult
DeriveECDHES(alg, apu, apv, privkey, pubkey, keysize) ==
  IF ~IsOnCurve(privkey.curve, Point(pubkey))
  THEN NoKey("curve", 0)
  ELSE LET z == ScalarMult(privkey.curve, Point(pubkey), privkey.d).x
           zBytes == AllocECPointBuffer(z, privkey.curve)
       IN [err |-> "none", hasKey |-> TRUE,
           key |-> ConcatKDF(alg, zBytes, apu, apv, PutUint32(keysize * 8), keysize),
           scalarMults |-> 1]

OtherCurve(c) == IF c = "E17" THEN "E13" ELSE "E17"

\* What an exchange function may answer to the blinded key X:
\*   "honest"          (s*X, s*G) for its private scalar s
\*   "error"           an error
\*   "otherCurveResp"  a response key of another curve
\*   "offCurveServer"  a server key whose point is not on the curve
OracleKinds == {"honest", "error", "otherCurveResp", "offCurveServer"}

\* exchFn(&xfrKey) for an oracle of the given kind with private scalar s
Exchange(kind, s, X) ==
  LET c == X.curve
      R == ScalarMult(c, Point(X), s)
      S == ScalarMult(c, Generator(c), s)
      o == OtherCurve(c)
  IN [err |-> (kind = "error"),
      respKey |-> IF kind = "otherCurveResp"
                  THEN [curve |-> o, x |-> Generator(o).x, y |-> Generator(o).y]
                  ELSE [curve |-> c, x |-> R.x, y |-> R.y],
      srvKey |-> IF kind = "offCurveServer"
                 THEN [curve |-> c, x |-> Generator(o).x, y |-> Generator(o).y]
                 ELSE [curve |-> c, x |-> S.x, y |-> S.y]]

\* the value of an expression, worked out once: the member of {v}
Only(S) == CHOOSE v \in S : TRUE

NoECMRKey(err, xfrKey, exch) ==
  [err |-> err, hasKey |-> FALSE, key |-> <<>>, scalarMults |-> 0,
   xfrKey |-> xfrKey, exch |-> exch, exchanges |-> 1, z |-> Infinity]

\* How the Curve of the build's crypto/elliptic takes an operand of Add that
\* is neither the point at infinity nor a point IsOnCurve accepts (a negative
\* coordinate is one): the generic CurveParams code reduces the coordinates
\* modulo p and adds; the curves that check their operands panic
\* ("crypto/elliptic: Add was called on an invalid point").
Builds == {"reduces", "panics"}

\* Curve.Add(x1, y1, x2, y2) of the build
CurveAdd(build, c, P, Q) ==
  IF /\ build = "panics"
     /\ \E V \in {P, Q} : V # Infinity /\ ~IsOnCurve(c, V)
  THEN [panic |-> TRUE, x |-> 0, y |-> 0]
  ELSE [panic |-> FALSE, x |-> Add(c, P, Q).x, y |-> Add(c, P, Q).y]

\* DeriveECMR from the answer of the exchange function on: the checks of the
\* answer, resp - t*srv, and the KDF
DeriveECMRFromAnswer(alg, apu, apv, pubkey, keysize, t, xfrKey, exch, build) ==
  LET ecCurve == pubkey.curve
  IN IF exch.err THEN NoECMRKey("exchange", xfrKey, exch)
     ELSE IF exch.respKey.curve # ecCurve THEN NoECMRKey("curve", xfrKey, exch)
     ELSE IF ~IsOnCurve(ecCurve, Point(exch.srvKey)) THEN NoECMRKey("server", xfrKey, exch)
     ELSE LET U == ScalarMult(ecCurve, Point(exch.srvKey), t)
              Z == CurveAdd(build, ecCurve, Point(exch.respKey),
                            [x |-> U.x, y |-> 0 - U.y])
              zBytes == AllocECPointBuffer(Z.x, ecCurve)
          IN IF Z.panic
             THEN [NoECMRKey("panic", xfrKey, exch) EXCEPT !.scalarMults = 1]
             ELSE [err |-> "none", hasKey |-> TRUE,
                   key |-> ConcatKDF(alg, zBytes, apu, apv, PutUint32(keysize * 8), keysize),
                   scalarMults |-> 1, xfrKey |-> xfrKey, exch |-> exch, exchanges |-> 1,
                   z |-> Point(Z)]

\* DeriveECMR(alg, apu, apv, exchFn, pubkey, keysize) when the ephemeral
\* scalar drawn is t, the exchange function is the oracle (kind, s) and the
\* build's Curve is build.  err is "none", "exchange" (failed to exchange
\* public key), "curve" (expect EC curve type ...), "server" (server key is
\* not on the curve) or "panic"; xfrKey is the key handed to the exchange
\* function and exch its answer
DeriveECMR(alg, apu, apv, kind, s, pubkey, keysize, t, build) ==
  LET ecCurve == pubkey.curve
      tempKey == GenerateKey(ecCurve, t)
      X == Add(ecCurve, Point(tempKey), Point(pubkey))
  IN Only({Only({DeriveECMRFromAnswer(alg, apu, apv, pubkey, keysize, t, xfrKey,
                                      exch, build) :
                   exch \in {Exchange(kind, s, xfrKey)}}) :
             xfrKey \in {[curve |-> ecCurve, x |-> X.x, y |-> X.y]}})

(***************************************************************************)
(* ECDH-ES key encryption: ECDHESEncrypt of keyenc.go and the key          *)
(* generator of jwe/internal/keygen it draws from.                         *)
(***************************************************************************)
WrappingAlgorithms == {"ECDH_ES_A128KW", "ECDH_ES_A192KW", "ECDH_ES_A256KW"}

\* the key size of the AES key wrap behind a wrapping algorithm
KeyWrapSize(alg) ==
  CASE alg = "ECDH_ES_A128KW" -> 16
    [] alg = "ECDH_ES_A192KW" -> 24
    [] OTHER -> 32

\* keygen.Ecdhes.Generate(): an ephemeral key pair (its scalar is d) on the
\* recipient's curve and the key K derived from it; in direct mode the KDF
\* is keyed to the content encryption algorithm and its key size
Generate(generator, d, contentalg) ==
  LET priv == GenerateKey(generator.pubkey.curve, d)
      direct == generator.alg = "ECDH_ES"
      k == DeriveECDHES(AlgorithmName(IF direct THEN contentalg ELSE generator.alg),
                        <<>>, <<>>, priv, generator.pubkey,
                        IF direct THEN ContentKeySize(contentalg)
                        ELSE KeyWrapSize(generator.alg))
  IN [err |-> k.err, bytes |-> k.key, privkey |-> priv]

NoSource(err, wraps) ==
  [err |-> err, bytes |-> <<>>, epk |-> [curve |-> "", x |-> 0, y |-> 0],
   kek |-> <<>>, wraps |-> wraps]

\* ECDHESEncrypt.Encrypt(cek).  err is "none", "generate", "cipher" (failed
\* to generate cipher from generated key) or "wrap" (failed to wrap data);
\* wraps counts the calls of Wrap; kek is the key the generator derived
ECDHESEncrypt(kw, cek, d, contentalg) ==
  LET kg == Generate(kw.generator, d, contentalg)
  IN IF kg.err # "none" THEN NoSource("generate", 0)
     ELSE LET block == NewCipher(kg.bytes)
          IN IF ~block.ok THEN NoSource("cipher", 0)
             ELSE LET jek == Wrap(block, cek)
                  IN IF jek.err # "none" THEN NoSource("wrap", 1)
                     ELSE [err |-> "none", bytes |-> jek.out,
                           epk |-> PublicKey(kg.privkey),
                           kek |-> kg.bytes, wraps |-> 1]

(***************************************************************************)
(* Inputs and actions of the ECDH specification.                           *)
(***************************************************************************)
KdfAlgorithms == {AlgorithmName("ECDH_ES_A128KW"), AlgorithmName("A128GCM")}

PartyInfos == {<<>>, <<65>>}

DerivedKeySizes == {16, 32, 64}

\* what a caller may pass as a public key for curve c: keys of that curve,
\* keys of the other curve, the point at infinity
PublicKeyCandidates(c) ==
  {PublicKey(GenerateKey(c, d)) : d \in Scalars}
    \cup {PublicKey(GenerateKey(OtherCurve(c), d)) : d \in Scalars}
    \cup {[curve |-> c, x |-> P.x, y |-> P.y] :
            P \in {Point(GenerateKey(OtherCurve(c), d)) : d \in Scalars}}
    \cup {[curve |-> c, x |-> 0, y |-> 0]}

\* two parties with key pairs (a, A) and (b, B) on one curve each derive the
\* key from their own private key and the other's public key
DoAgree ==
  \E c \in CurveNames, a \in Scalars, b \in Scalars, alg \in KdfAlgorithms,
     apu \in PartyInfos, apv \in PartyInfos, keysize \in DerivedKeySizes :
    LET ka == GenerateKey(c, a)
        kb == GenerateKey(c, b)
    IN /\ Idle
       /\ call' = [op |-> "Agree", a |-> ka, b |-> kb, keysize |-> keysize,
                   left |-> DeriveECDHES(alg, apu, apv, ka, PublicKey(kb), keysize),
                   right |-> DeriveECDHES(alg, apu, apv, kb, PublicKey(ka), keysize)]
       /\ UNCHANGED <<heap, returned, key0>>

\* a key is derived from a private key and whatever public key was received
DoDeriveECDHES ==
  \E c \in CurveNames, d \in Scalars, alg \in KdfAlgorithms, keysize \in DerivedKeySizes :
    \E pubkey \in PublicKeyCandidates(c) :
      LET privkey == GenerateKey(c, d)
      IN /\ Idle
         /\ call' = [op |-> "DeriveECDHES", privkey |-> privkey, pubkey |-> pubkey,
                     keysize |-> keysize,
                     res |-> DeriveECDHES(alg, <<>>, <<65>>, privkey, pubkey, keysize)]
         /\ UNCHANGED <<heap, returned, key0>>

\* a key is derived through an exchange function
DoDeriveECMR ==
  \E c \in CurveNames, r \in Scalars, s \in Scalars, t \in Scalars,
     kind \in OracleKinds, keysize \in DerivedKeySizes, build \in Builds :
    LET pubkey == PublicKey(GenerateKey(c, r))
        alg == AlgorithmName("A128GCM")
        res == DeriveECMR(alg, <<>>, <<65>>, kind, s, pubkey, keysize, t, build)
    IN /\ Idle
       /\ call' = [op |-> "DeriveECMR", pubkey |-> pubkey, kind |-> kind,
                   s |-> s, t |-> t, keysize |-> keysize, build |-> build,
                   alg |-> alg, apu |-> <<>>, apv |-> <<65>>, res |-> res]
       /\ UNCHANGED <<heap, returned, key0>>

EncryptAlgorithms == {"ECDH_ES"} \cup WrappingAlgorithms

\* a CEK is encrypted for a recipient
DoECDHESEncrypt ==
  \E c \in CurveNames, r \in Scalars, d \in Scalars, alg \in EncryptAlgorithms,
     contentalg \in ContentAlgorithms, len \in {8, 16, 20} :
    LET pubkey == PublicKey(GenerateKey(c, r))
        kw == [algorithm |-> alg, generator |-> [alg |-> alg, pubkey |-> pubkey]]
        cek == Fill("ramp", len)
    IN /\ Idle
       /\ call' = [op |-> "ECDHESEncrypt", kw |-> kw, cek |-> cek, d |-> d,
                   contentalg |-> contentalg,
                   res |-> ECDHESEncrypt(kw, cek, d, contentalg)]
       /\ UNCHANGED <<heap, returned, key0>>

NoCek(err, algBytes, keysize, derives) ==
  [err |-> err, hasKey |-> FALSE, cek |-> <<>>, algBytes |-> algBytes,
   keysize |-> keysize, derives |-> derives, unwraps |-> 0]

\* what ECDHESDecrypt.Decrypt does with the key that was derived
ECDHESDecryptWithKey(kw, enckey, algBytes, keysize, key) ==
  IF key.err # "none" THEN NoCek("derive", algBytes, keysize, 1)
  ELSE IF kw.keyalg = "ECDH_ES"
  THEN [err |-> "none", hasKey |-> TRUE, cek |-> key.key, algBytes |-> algBytes,
        keysize |-> keysize, derives |-> 1, unwraps |-> 0]
  ELSE LET block == NewCipher(key.key)
       IN IF ~block.ok THEN NoCek("cipher", algBytes, keysize, 1)
          ELSE LET u == Unwrap(block, enckey)
               IN [err |-> u.err, hasKey |-> u.err = "none", cek |-> u.out,
                   algBytes |-> algBytes, keysize |-> keysize,
                   derives |-> 1, unwraps |-> 1]

\* ECDHESDecrypt.Decrypt that keeps the key algorithm's name in direct mode
ECDHESDecryptKeyAlgName(kw, enckey) ==
  IF kw.keyalg = "ECDH_ES"
  THEN IF kw.contentalg \notin ContentAlgorithms
       THEN NoCek("contentcipher", <<>>, 0, 0)
       ELSE LET algBytes == AlgorithmName(kw.keyalg)
                keysize == ContentKeySize(kw.contentalg)
            IN \* the derived key is bound once
               Only({ECDHESDecryptWithKey(kw, enckey, algBytes, keysize, key) :
                       key \in {DeriveECDHES(algBytes, kw.apu, kw.apv,
                                             kw.privkey, kw.pubkey, keysize)}})
  ELSE IF kw.keyalg \in WrappingAlgorithms
  THEN LET algBytes == AlgorithmName(kw.keyalg)
           keysize == KeyWrapSize(kw.keyalg)
       IN Only({ECDHESDecryptWithKey(kw, enckey, algBytes, keysize, key) :
                  key \in {DeriveECDHES(algBytes, kw.apu, kw.apv,
                                        kw.privkey, kw.pubkey, keysize)}})
  ELSE NoCek("algorithm", <<>>, 0, 0)

\* ECDHESDecrypt.Decrypt(enckey).  err is "none", "contentcipher" (failed to
\* create content cipher), "algorithm" (invalid ECDH-ES key wrap algorithm),
\* "derive", "cipher" or what Unwrap returned; algBytes and keysize are what
\* DeriveECDHES was given; derives and unwraps count the calls of
\* DeriveECDHES and Unwrap
ECDHESDecrypt(kw, enckey) ==
  IF kw.keyalg = "ECDH_ES"
  THEN IF kw.contentalg \notin ContentAlgorithms
       THEN NoCek("contentcipher", <<>>, 0, 0)
       ELSE LET algBytes == AlgorithmName(kw.contentalg)
                keysize == ContentKeySize(kw.contentalg)
            IN \* the derived key is bound once
               Only({ECDHESDecryptWithKey(kw, enckey, algBytes, keysize, key) :
                       key \in {DeriveECDHES(algBytes, kw.apu, kw.apv,
                                             kw.privkey, kw.pubkey, keysize)}})
  ELSE IF kw.keyalg \in WrappingAlgorithms
  THEN LET algBytes == AlgorithmName(kw.keyalg)
           keysize == KeyWrapSize(kw.keyalg)
       IN Only({ECDHESDecryptWithKey(kw, enckey, algBytes, keysize, key) :
                  key \in {DeriveECDHES(algBytes, kw.apu, kw.apv,
                                        kw.privkey, kw.pubkey, keysize)}})
  ELSE NoCek("algorithm", <<>>, 0, 0)

DecryptAlgorithms == EncryptAlgorithms \cup {"ECMR", "RSA1_5"}

DecryptContentAlgorithms == ContentAlgorithms \cup {"unsupported"}

\* the content algorithm a sender can have used
SenderContentAlgorithm(contentalg) ==
  IF contentalg \in ContentAlgorithms THEN contentalg ELSE "A128GCM"

\* what a recipient may be handed as the encrypted key: what the sender's
\* Encrypt produced for it, that with its last byte changed, nothing, or
\* a byte string whose length is no multiple of 8
EncryptedKeys(alg, contentalg, pubkey, d, cek) ==
  UNION {{[kind |-> "sent", bytes |-> sent],
          [kind |-> "changed",
           bytes |-> [i \in 1..Len(sent) |->
                        IF i = Len(sent) THEN (sent[i] + 1) % 256 ELSE sent[i]]],
          [kind |-> "odd", bytes |-> <<1, 2, 3>>]} :
         sent \in {ECDHESEncrypt([algorithm |-> alg,
                                  generator |-> [alg |-> alg, pubkey |-> pubkey]],
                                 cek, d, SenderContentAlgorithm(contentalg)).bytes}}

\* a recipient decrypts an encrypted key that came with an ephemeral key
DoECDHESDecrypt ==
  /\ Idle
  /\ \E c \in CurveNames, r \in Scalars, d \in 1..2, keyalg \in DecryptAlgorithms,
        contentalg \in DecryptContentAlgorithms, onCurve \in BOOLEAN :
       \E privkey \in {GenerateKey(c, r)},
          epk \in {PublicKey(GenerateKey(IF onCurve THEN c ELSE OtherCurve(c), d))},
          cek \in {Fill("ramp", 16)} :
         \E enckey \in EncryptedKeys(IF keyalg \in EncryptAlgorithms THEN keyalg
                                     ELSE "ECDH_ES_A128KW",
                                     contentalg, PublicKey(privkey), d, cek),
            kw \in {[keyalg |-> keyalg, contentalg |-> contentalg,
                     apu |-> <<>>, apv |-> <<>>, privkey |-> privkey,
                     pubkey |-> [curve |-> c, x |-> epk.x, y |-> epk.y]]} :
           \E bytes \in {enckey.bytes} :
             call' = [op |-> "ECDHESDecrypt", kw |-> kw, enckey |-> bytes,
                      kind |-> enckey.kind, sent |-> cek,
                      res |-> ECDHESDecrypt(kw, bytes)]
  /\ UNCHANGED <<heap, returned, key0>>

NextECDecrypt == DoECDHESDecrypt \/ Forget

SpecECDecrypt == InitIdle /\ [][NextECDecrypt]_vars

NextEC == DoAgree \/ DoDeriveECDHES \/ DoDeriveECMR \/ DoECDHESEncrypt \/ Forget

SpecEC == InitIdle /\ [][NextEC]_vars

\* C5: for two key pairs (a, A) and (b, B) on the same curve and identical
\* alg, apu, apv and keysize, DeriveECDHES with (a, B) and DeriveECDHES with
\* (b, A) both succeed and return the same key, of exactly keysize bytes.
C5_BothSidesDeriveSameKey ==
  call.op = "Agree"
  => /\ call.left.err = "none"
     /\ call.right.err = "none"
     /\ call.left.key = call.right.key
     /\ Len(call.left.key) = call.keysize

C5_Witness ==
  /\ call.op = "Agree"
  /\ call.a.d # call.b.d
  /\ call.left.hasKey
  /\ call.keysize = 64
  /\ Len(call.right.key) = 64
  /\ call.left.key = call.right.key

\* C7: ECDHESEncrypt.Encrypt returns a byte source that carries the ephemeral
\* public key together with the AES-KW-wrapped CEK in the wrapping modes,
\* and in direct mode (ECDH_ES) carries no wrapped bytes: there the derived
\* key is itself the CEK and Wrap is not applied.
C7_EncryptWrapsOnlyInWrappingModes ==
  call.op = "ECDHESEncrypt"
  => /\ (call.kw.algorithm \in WrappingAlgorithms /\ call.res.err = "none")
          => /\ call.res.epk = PublicKey(GenerateKey(call.kw.generator.pubkey.curve, call.d))
             /\ call.res.bytes = Wrap(NewCipher(call.res.kek), call.cek).out
             /\ Len(call.res.kek) = KeyWrapSize(call.kw.algorithm)
     /\ call.kw.algorithm = "ECDH_ES"
          => /\ call.res.wraps = 0
             /\ call.res.err = "none" => call.res.bytes = <<>>

\* C9: a key derivation given an EC point that is not on the expected curve
\* fails with an error and returns no key: DeriveECDHES fails, before the
\* scalar multiplication, when the public key point is not on the private
\* key's curve; DeriveECMR fails when the oracle's response key is for a
\* different curve or the oracle's server key is not on the recipient's curve.
C9_OffCurvePointsAreRejected ==
  /\ (call.op = "DeriveECDHES" /\ ~IsOnCurve(call.privkey.curve, Point(call.pubkey)))
       => (call.res.err = "curve" /\ ~call.res.hasKey /\ call.res.scalarMults = 0)
  /\ (/\ call.op = "DeriveECMR"
      /\ (\/ call.res.exch.respKey.curve # call.pubkey.curve
          \/ ~IsOnCurve(call.pubkey.curve, Point(call.res.exch.srvKey))))
       => (call.res.err # "none" /\ ~call.res.hasKey)

C9_Witness ==
  /\ call.op = "DeriveECMR"
  /\ call.kind = "offCurveServer"
  /\ ~IsOnCurve(call.pubkey.curve, Point(call.res.exch.srvKey))
  /\ call.res.err = "server"

----------------------------------------------------------------------------
\* jwk/ecdsa.go: the fixed-width coordinate buffers.
\*
\* A big.Int is its magnitude as math/big keeps it: base-256 digits, least
\* significant first, with no zero digit at the top (zero is the empty
\* sequence).

MaxCoordLen == 67

Reverse(s) == [i \in 1..Len(s) |-> s[Len(s) + 1 - i]]

\* drop the zero digits at the top of a magnitude
RECURSIVE Norm(_)
Norm(d) ==
  IF d = <<>> THEN <<>>
  ELSE IF d[Len(d)] = 0 THEN Norm(SubSeq(d, 1, Len(d) - 1))
  ELSE d

\* big.Int.Bytes: the big-endian bytes of the magnitude
Bytes(x) == Reverse(x)

\* big.Int.SetBytes: buf read as a big-endian unsigned integer
SetBytes(buf) == Norm(Reverse(buf))

\* bits of one nonzero digit
DigitBitLen(b) ==
  IF b >= 128 THEN 8 ELSE IF b >= 64 THEN 7 ELSE IF b >= 32 THEN 6
  ELSE IF b >= 16 THEN 5 ELSE IF b >= 8 THEN 4 ELSE IF b >= 4 THEN 3
  ELSE IF b >= 2 THEN 2 ELSE IF b >= 1 THEN 1 ELSE 0

\* big.Int.BitLen
BitLen(x) ==
  IF x = <<>> THEN 0 ELSE ((Len(x) - 1) * 8) + DigitBitLen(x[Len(x)])

EllipticCurveAlgorithms == {"P-256", "P-384", "P-521"}

\* elliptic.P256(), P384(), P521(): Params().BitSize
BitSize(crv) ==
  CASE crv = "P-256" -> 256
    [] crv = "P-384" -> 384
    [] crv = "P-521" -> 521

curveSize(crv) ==
  LET bits == BitSize(crv)
      div  == bits \div 8
      mod  == bits % 8
  IN  IF mod = 0 THEN div ELSE div + 1

\* padding put after the data instead of before it
newFixedSizeBufferPadRight(data, length) ==
  IF Len(data) > length THEN [panic |-> TRUE, buf |-> <<>>]
  ELSE [panic |-> FALSE, buf |-> data \o Zeros(length - Len(data))]

newFixedSizeBuffer(data, length) ==
  IF Len(data) > length THEN [panic |-> TRUE, buf |-> <<>>]
  ELSE LET pad == Zeros(length - Len(data))
       IN  [panic |-> FALSE, buf |-> pad \o data]

buildECDSAPublicKey(alg, xbuf, ybuf) ==
  IF alg \notin EllipticCurveAlgorithms
  THEN [err |-> "curve", curve |-> "", x |-> <<>>, y |-> <<>>]
  ELSE [err |-> "none", curve |-> alg, x |-> SetBytes(xbuf), y |-> SetBytes(ybuf)]

\* coordinates: every length up to MaxCoordLen, a few digit patterns each
CoordKinds == {"ones", "power", "ff", "count"}

Coord(kind, len) ==
  [i \in 1..len |->
     CASE kind = "ones"  -> 1
       [] kind = "power" -> IF i = len THEN 1 ELSE 0
       [] kind = "ff"    -> 255
       [] kind = "count" -> IF i = len THEN 128 ELSE (i - 1) % 256]

Coords == {Coord(k, n) : k \in CoordKinds, n \in 0..MaxCoordLen}

\* Thumbprint's encoding of one coordinate of a key on curve crv
DoNewFixedSizeBuffer ==
  /\ Idle
  /\ \E crv \in EllipticCurveAlgorithms, x \in Coords :
       call' = [op |-> "newFixedSizeBuffer", crv |-> crv, x |-> x,
                length |-> curveSize(crv),
                res |-> newFixedSizeBuffer(Bytes(x), curveSize(crv))]
  /\ UNCHANGED <<heap, returned, key0>>

\* the buffers are read back into a public key
DoBuildECDSAPublicKey ==
  /\ call.op = "newFixedSizeBuffer"
  /\ ~call.res.panic
  /\ \E alg \in EllipticCurveAlgorithms \cup {"invalid"} :
       call' = [op |-> "buildECDSAPublicKey", crv |-> call.crv, x |-> call.x,
                length |-> call.length, alg |-> alg, buf |-> call.res.buf,
                res |-> buildECDSAPublicKey(alg, call.res.buf, call.res.buf)]
  /\ UNCHANGED <<heap, returned, key0>>

NextJWK == DoNewFixedSizeBuffer \/ DoBuildECDSAPublicKey \/ Forget

SpecJWK == InitIdle /\ [][NextJWK]_vars

\* C11: for each supported curve (bit sizes 256, 384, 521) the fixed-width
\* encoding of a coordinate x < 2^bitsize has length exactly ceil(bitsize/8)
\* (32, 48, 66 bytes), is the minimal big-endian bytes of x left-padded with
\* zero bytes, and decodes back to x.
C11_FixedWidthRoundTrip ==
  /\ (call.op = "newFixedSizeBuffer" /\ BitLen(call.x) <= BitSize(call.crv))
       => LET buf  == call.res.buf
              size == CASE call.crv = "P-256" -> 32
                        [] call.crv = "P-384" -> 48
                        [] call.crv = "P-521" -> 66
              k    == Len(call.x)
          IN  /\ ~call.res.panic
              /\ Len(buf) = size
              /\ (size * 8) >= BitSize(call.crv)
              /\ (size * 8) < BitSize(call.crv) + 8
              /\ \A i \in 1..(size - k) : buf[i] = 0
              /\ k > 0 => buf[size - k + 1] # 0
              /\ \A i \in 1..k : buf[size - k + i] = call.x[k + 1 - i]
  /\ (/\ call.op = "buildECDSAPublicKey"
      /\ call.alg \in EllipticCurveAlgorithms
      /\ BitLen(call.x) <= BitSize(call.crv))
       => /\ call.res.err = "none"
          /\ call.res.x = call.x

C11_Witness ==
  /\ call.op = "buildECDSAPublicKey"
  /\ call.crv = "P-521"
  /\ call.alg = "P-521"
  /\ Len(call.x) = 33
  /\ call.x[1] = 0
  /\ Len(call.buf) = 66
  /\ call.buf[33] = 0
  /\ call.buf[34] = 128
  /\ call.res.x = call.x

\* C12: ECDHESDecrypt.Decrypt selects the KDF inputs by key algorithm: for
\* ECDH_ES the AlgorithmID is the content-encryption algorithm's name,
\* keysize is the content cipher's key size, and the derived K is returned
\* as the CEK without touching the encrypted key; for ECDH_ES_A128KW,
\* A192KW and A256KW the AlgorithmID is the key-encryption algorithm's name,
\* keysize is 16/24/32, and the result is Unwrap(K, enckey); for any other
\* key algorithm it returns an error without deriving a key.
C12_DecryptSelectsKdfInputs ==
  call.op = "ECDHESDecrypt"
  => LET kw == call.kw
         res == call.res
         K(alg, keysize) ==
           DeriveECDHES(AlgorithmName(alg), kw.apu, kw.apv, kw.privkey, kw.pubkey, keysize)
     IN /\ (kw.keyalg = "ECDH_ES" /\ kw.contentalg \in ContentAlgorithms)
             => LET size == CASE kw.contentalg = "A128GCM" -> 16
                              [] kw.contentalg = "A256GCM" -> 32
                              [] kw.contentalg = "A256CBC_HS512" -> 64
                    k == K(kw.contentalg, size)
                IN /\ res.derives = 1
                   /\ res.algBytes = AlgorithmName(kw.contentalg)
                   /\ res.keysize = size
                   /\ res.unwraps = 0
                   /\ k.err = "none"
                        => (res.err = "none" /\ res.hasKey /\ res.cek = k.key)
        /\ kw.keyalg \in WrappingAlgorithms
             => LET size == CASE kw.keyalg = "ECDH_ES_A128KW" -> 16
                              [] kw.keyalg = "ECDH_ES_A192KW" -> 24
                              [] kw.keyalg = "ECDH_ES_A256KW" -> 32
                    k == K(kw.keyalg, size)
                IN /\ res.derives = 1
                   /\ res.algBytes = AlgorithmName(kw.keyalg)
                   /\ res.keysize = size
                   /\ k.err = "none"
                        => LET u == Unwrap(NewCipher(k.key), call.enckey)
                           IN /\ res.unwraps = 1
                              /\ res.err = u.err
                              /\ res.cek = u.out
        /\ kw.keyalg \notin ({"ECDH_ES"} \cup WrappingAlgorithms)
             => (res.err # "none" /\ ~res.hasKey /\ res.derives = 0)

C12_Witness ==
  /\ call.op = "ECDHESDecrypt"
  /\ call.kw.keyalg = "ECDH_ES_A192KW"
  /\ call.kind = "sent"
  /\ call.res.keysize = 24
  /\ call.res.err = "none"
  /\ call.res.cek = call.sent
  /\ Len(call.enckey) = 24

\* C13: with an honest exchange oracle holding private scalar s that
\* answers a blinded key X with (R, S) = (s*X, s*G), DeriveECMR calls the
\* oracle exactly once with X = T + P_recipient for its fresh ephemeral pair
\* (t, T), and the point it feeds to the KDF, R - t*S, equals s*P_recipient
\* for every choice of t; hence it returns the same key as DeriveECDHES with
\* private key s, public key P_recipient and the same alg, apu, apv and
\* keysize.
C13_ECMRMatchesECDHES ==
  (call.op = "DeriveECMR" /\ call.kind = "honest")
  => LET c == call.pubkey.curve
         T == ScalarMult(c, Generator(c), call.t)
         direct == DeriveECDHES(call.alg, call.apu, call.apv,
                                GenerateKey(c, call.s), call.pubkey, call.keysize)
     IN /\ call.res.exchanges = 1
        /\ Point(call.res.xfrKey) = Add(c, T, Point(call.pubkey))
        /\ call.res.exch.respKey = [curve |-> c,
                                    x |-> ScalarMult(c, Point(call.res.xfrKey), call.s).x,
                                    y |-> ScalarMult(c, Point(call.res.xfrKey), call.s).y]
        /\ call.res.err = "none"
        /\ call.res.z = ScalarMult(c, Point(call.pubkey), call.s)
        /\ direct.err = "none"
        /\ call.res.key = direct.key
        /\ Len(call.res.key) = call.keysize

=============================================================================
